---- MODULE Spec2Model ----
(***************************************************************************)
(* Model of the chunk codec of src/src/fo4/chunk.rs: a Chunk (bytes, an    *)
(* optional recorded decompressed length, extra metadata) whose            *)
(* compress_into / decompress_into write into a caller-supplied Vec<u8>.   *)
(*                                                                         *)
(* The two codecs are modelled at the byte level:                          *)
(*  - LZ4 block format: the encoder emits one literal-only sequence, which *)
(*    is exactly what the block encoder emits for inputs shorter than 13   *)
(*    bytes; the decoder follows LZ4_decompress_safe, destination capacity *)
(*    included.                                                            *)
(*  - zlib: a 2-byte header computed from level and window bits, one final *)
(*    fixed-Huffman deflate block of literals, and the Adler-32 trailer;   *)
(*    the decoder parses header, stored and fixed-Huffman blocks, and the  *)
(*    trailer, bit by bit.                                                 *)
(***************************************************************************)
EXTENDS Integers, Sequences, FiniteSets, TLC

\* Longest payload a chunk is built from.
MaxLen == 2
\* Longest earlier contents of an output buffer handed to a call.
MaxPre == 2
\* Successful compress_into calls counted on one chunk (the counter
\* saturates here).
MaxCalls == 2
\* Largest spare capacity of an output buffer handed to a call.
MaxSpare == 1

Max(a, b) == IF a >= b THEN a ELSE b

\* Byte values payloads are drawn from: one with an 8-bit and one with a
\* 9-bit fixed-Huffman code.
PayloadBytes == {7, 200}

\* Pre-existing output buffer contents of length n (a filler byte no
\* payload holds).
Filled(n) == [i \in 1..n |-> 9]

----------------------------------------------------------------------------
(* Bit and byte helpers *)

Pow2(n) == 2 ^ n

\* The w bits of v, most significant first (Huffman codes are packed so).
CodeBits(v, w) == [i \in 1..w |-> (v \div Pow2(w - i)) % 2]

\* The value of bits[from .. from+w-1] read most significant first.
RECURSIVE CodeVal(_, _, _)
CodeVal(bits, from, w) ==
    IF w = 0 THEN 0
    ELSE 2 * CodeVal(bits, from, w - 1) + bits[from + w - 1]

\* Bytes to the bit stream deflate reads: least significant bit first.
BytesToBits(bytes) ==
    [i \in 1..(8 * Len(bytes)) |->
        (bytes[((i - 1) \div 8) + 1] \div Pow2((i - 1) % 8)) % 2]

\* The bit at position i, 0 past the end (padding of the last byte).
BitAt(bits, i) == IF i <= Len(bits) THEN bits[i] ELSE 0

\* Bit stream to bytes, the last byte padded with zero bits.
BitsToBytes(bits) ==
    [k \in 1..((Len(bits) + 7) \div 8) |->
        BitAt(bits, 8 * k - 7) + 2 * BitAt(bits, 8 * k - 6)
        + 4 * BitAt(bits, 8 * k - 5) + 8 * BitAt(bits, 8 * k - 4)
        + 16 * BitAt(bits, 8 * k - 3) + 32 * BitAt(bits, 8 * k - 2)
        + 64 * BitAt(bits, 8 * k - 1) + 128 * BitAt(bits, 8 * k)]

\* Adler-32 halves (a, b) of data, each modulo 65521.
RECURSIVE AdlerAB(_, _)
AdlerAB(data, n) ==
    IF n = 0 THEN <<1, 0>>
    ELSE LET p == AdlerAB(data, n - 1)
             a == (p[1] + data[n]) % 65521
         IN <<a, (p[2] + a) % 65521>>

\* The Adler-32 checksum as its four big-endian bytes.
Adler32(data) ==
    LET p == AdlerAB(data, Len(data))
    IN <<p[2] \div 256, p[2] % 256, p[1] \div 256, p[1] % 256>>

----------------------------------------------------------------------------
(* LZ4 block codec (lzzzz::lz4_hc::compress_to_vec, lzzzz::lz4::decompress) *)

\* LZ4 block format parameters (lz4.c).
MINMATCH == 4
MFLIMIT == 12
LASTLITERALS == 5

\* A length above the 4-bit field: 255s, then the remainder.
RECURSIVE LenExt(_)
LenExt(n) == IF n >= 255 THEN <<255>> \o LenExt(n - 255) ELSE <<n>>

\* The block the encoder emits for src: a single sequence of literals
\* (token, optional length extension, the literals). Inputs shorter than
\* MFLIMIT + 1 bytes are always encoded this way.
Lz4Encode(src) ==
    LET n == Len(src)
    IN IF n < 15 THEN <<16 * n>> \o src
       ELSE <<240>> \o LenExt(n - 15) \o src

\* read_variable_length: ip counts the bytes of src consumed so far.
RECURSIVE RvlLoop(_, _, _, _)
RvlLoop(src, ip, limit, acc) ==
    LET s == src[ip + 1]
    IN IF ip + 1 > limit THEN [ok |-> FALSE, val |-> 0, ip |-> ip + 1]
       ELSE IF s = 255 THEN RvlLoop(src, ip + 1, limit, acc + s)
       ELSE [ok |-> TRUE, val |-> acc + s, ip |-> ip + 1]

ReadVarLen(src, ip, limit, initial) ==
    IF initial /\ ip >= limit THEN [ok |-> FALSE, val |-> 0, ip |-> ip]
    ELSE RvlLoop(src, ip, limit, 0)

\* dst with bytes written from offset op on.
WriteAt(dst, op, bytes) ==
    [i \in 1..Len(dst) |->
        IF i > op /\ i <= op + Len(bytes) THEN bytes[i - op] ELSE dst[i]]

\* The byte-by-byte (overlapping) match copy.
RECURSIVE CopyMatch(_, _, _, _)
CopyMatch(dst, op, offset, n) ==
    IF n = 0 THEN dst
    ELSE CopyMatch([dst EXCEPT ![op + 1] = dst[op + 1 - offset]],
                   op + 1, offset, n - 1)

\* One sequence of LZ4_decompress_safe and the ones after it. dst is the
\* destination slice (its length is the capacity the decoder is given),
\* op the number of bytes written so far.
RECURSIVE Lz4Seq(_, _, _, _)
Lz4Seq(src, ip, dst, op) ==
    LET S == Len(src)
        D == Len(dst)
        fail == [ok |-> FALSE, len |-> 0, dst |-> dst]
        token == src[ip + 1]
        ll == IF token \div 16 = 15
              THEN ReadVarLen(src, ip + 1, S - 15, TRUE)
              ELSE [ok |-> TRUE, val |-> 0, ip |-> ip + 1]
        length == (token \div 16) + ll.val
        ip1 == ll.ip
        cpy == op + length
    IN IF ~ll.ok THEN fail
       ELSE IF cpy > D - MFLIMIT \/ ip1 + length > S - (2 + 1 + LASTLITERALS)
       THEN \* must be the last sequence
            IF ip1 + length # S \/ cpy > D THEN fail
            ELSE [ok |-> TRUE, len |-> cpy,
                  dst |-> WriteAt(dst, op, SubSeq(src, ip1 + 1, ip1 + length))]
       ELSE LET dst1 == WriteAt(dst, op, SubSeq(src, ip1 + 1, ip1 + length))
                ip2 == ip1 + length
                offset == src[ip2 + 1] + 256 * src[ip2 + 2]
                ml == IF token % 16 = 15
                      THEN ReadVarLen(src, ip2 + 2, S - LASTLITERALS + 1, FALSE)
                      ELSE [ok |-> TRUE, val |-> 0, ip |-> ip2 + 2]
                mlen == (token % 16) + ml.val + MINMATCH
            IN IF ~ml.ok \/ offset > cpy \/ cpy + mlen > D - LASTLITERALS
               THEN [ok |-> FALSE, len |-> 0, dst |-> dst1]
               ELSE Lz4Seq(src, ml.ip, CopyMatch(dst1, cpy, offset, mlen),
                           cpy + mlen)

\* LZ4_decompress_safe(src, dst): a negative result is ok = FALSE.
Lz4Decode(src, dst) ==
    IF Len(dst) = 0 THEN [ok |-> src = <<0>>, len |-> 0, dst |-> dst]
    ELSE IF Len(src) = 0 THEN [ok |-> FALSE, len |-> 0, dst |-> dst]
    ELSE Lz4Seq(src, 0, dst, 0)

----------------------------------------------------------------------------
(* zlib codec (flate2::write::ZlibEncoder / ZlibDecoder over zlib) *)

\* The 2-byte zlib header deflateInit2(level, Z_DEFLATED, window_bits)
\* writes: CMF (method 8, window size), FLG (level flags, check bits).
ZlibHeader(level, window_bits) ==
    LET cmf == 8 + 16 * (window_bits - 8)
        flevel == IF level < 2 THEN 0
                  ELSE IF level < 6 THEN 1
                  ELSE IF level = 6 THEN 2 ELSE 3
        base == 256 * cmf + 64 * flevel
    IN <<cmf, 64 * flevel + (31 - (base % 31))>>

\* The fixed-Huffman code of a literal byte.
HuffLit(b) == IF b < 144 THEN CodeBits(48 + b, 8) ELSE CodeBits(400 + (b - 144), 9)

RECURSIVE LitBits(_)
LitBits(src) ==
    IF src = <<>> THEN <<>> ELSE HuffLit(Head(src)) \o LitBits(Tail(src))

\* One final fixed-Huffman block (BFINAL = 1, BTYPE = 01) holding src as
\* literals, then the end-of-block code.
DeflateFixed(src) ==
    BitsToBytes(<<1, 1, 0>> \o LitBits(src) \o CodeBits(0, 7))

ZlibEncode(src, level, window_bits) ==
    ZlibHeader(level, window_bits) \o DeflateFixed(src) \o Adler32(src)

\* The result of inflating: status is "StreamEnd" (rest bytes of input
\* left over), "NeedMore" (input ended inside the stream), "DataError",
\* or "Unmodelled" (a dynamic block or a length code: outside this model).
InflateResult(status, produced, rest) ==
    [status |-> status, produced |-> produced, rest |-> rest]

\* The Adler-32 trailer, after used bytes of src.
Trailer(src, used, acc) ==
    IF Len(src) < used + 4 THEN InflateResult("NeedMore", acc, 0)
    ELSE IF SubSeq(src, used + 1, used + 4) # Adler32(acc)
    THEN InflateResult("DataError", acc, 0)
    ELSE InflateResult("StreamEnd", acc, Len(src) - (used + 4))

RECURSIVE InflateBlock(_, _, _, _)
RECURSIVE FixedSyms(_, _, _, _, _)

\* The symbols of a fixed-Huffman block from bit pos on.
FixedSyms(src, bits, pos, acc, bfinal) ==
    LET avail == Len(bits) - pos + 1
        c7 == CodeVal(bits, pos, 7)
        c8 == CodeVal(bits, pos, 8)
        c9 == CodeVal(bits, pos, 9)
    IN IF avail < 7 THEN InflateResult("NeedMore", acc, 0)
       ELSE IF c7 = 0
       THEN IF bfinal = 1 THEN Trailer(src, (pos + 6 + 7) \div 8, acc)
            ELSE InflateBlock(src, bits, pos + 7, acc)
       ELSE IF c7 <= 23 THEN InflateResult("Unmodelled", acc, 0)
       ELSE IF avail < 8 THEN InflateResult("NeedMore", acc, 0)
       ELSE IF c8 <= 191
       THEN FixedSyms(src, bits, pos + 8, Append(acc, c8 - 48), bfinal)
       ELSE IF c8 <= 199 THEN InflateResult("Unmodelled", acc, 0)
       ELSE IF avail < 9 THEN InflateResult("NeedMore", acc, 0)
       ELSE FixedSyms(src, bits, pos + 9, Append(acc, 144 + (c9 - 400)), bfinal)

\* A deflate block whose 3-bit header starts at bit pos.
InflateBlock(src, bits, pos, acc) ==
    LET bfinal == bits[pos]
        btype == bits[pos + 1] + 2 * bits[pos + 2]
        nb == (pos + 2 + 7) \div 8
        len == src[nb + 1] + 256 * src[nb + 2]
        nlen == src[nb + 3] + 256 * src[nb + 4]
        got == IF Len(src) - (nb + 4) < len THEN Len(src) - (nb + 4) ELSE len
        acc1 == acc \o SubSeq(src, nb + 5, nb + 4 + got)
    IN IF pos + 2 > Len(bits) THEN InflateResult("NeedMore", acc, 0)
       ELSE IF btype = 0
       THEN IF Len(src) < nb + 4 THEN InflateResult("NeedMore", acc, 0)
            ELSE IF len + nlen # 65535 THEN InflateResult("DataError", acc, 0)
            ELSE IF got < len THEN InflateResult("NeedMore", acc1, 0)
            ELSE IF bfinal = 1 THEN Trailer(src, nb + 4 + len, acc1)
            ELSE InflateBlock(src, bits, 8 * (nb + 4 + len) + 1, acc1)
       ELSE IF btype = 1 THEN FixedSyms(src, bits, pos + 3, acc, bfinal)
       ELSE IF btype = 2 THEN InflateResult("Unmodelled", acc, 0)
       ELSE InflateResult("DataError", acc, 0)

\* inflate of a zlib stream (window bits 15): header, blocks, trailer.
Inflate(src) ==
    IF Len(src) < 2 THEN InflateResult("NeedMore", <<>>, 0)
    ELSE IF \/ (256 * src[1] + src[2]) % 31 # 0
            \/ src[1] % 16 # 8
            \/ src[1] \div 16 > 7
            \/ (src[2] \div 32) % 2 = 1
    THEN InflateResult("DataError", <<>>, 0)
    ELSE InflateBlock(src, BytesToBits(src), 17, <<>>)

----------------------------------------------------------------------------
(* Vec<u8>: contents and capacity *)

VecNew == [data |-> <<>>, cap |-> 0]

\* Vec::reserve_exact: room for additional more bytes, no more than asked.
ReserveExact(v, additional) ==
    IF v.cap - Len(v.data) >= additional THEN v
    ELSE [v EXCEPT !.cap = Len(v.data) + additional]

\* Vec::reserve: amortised growth (at least double, at least 8 bytes).
Reserve(v, additional) ==
    IF v.cap - Len(v.data) >= additional THEN v
    ELSE [v EXCEPT !.cap = Max(8, Max(2 * v.cap, Len(v.data) + additional))]

\* Vec::extend_from_slice (io::Write for Vec<u8>).
Extend(v, bytes) ==
    [data |-> v.data \o bytes, cap |-> Reserve(v, Len(bytes)).cap]

----------------------------------------------------------------------------
(* Options, Extra, Chunk *)

CompressionFormats == {"Zip", "LZ4"}
CompressionLevels == {"FO4", "FO4Xbox", "SF"}

Options == [compression_format : CompressionFormats,
            compression_level : CompressionLevels]

\* Extra: GNRL, or DX10 with its mip range.
ExtraGNRL == [tag |-> "GNRL", mips |-> <<0, 0>>]
ExtraDX10(mips) == [tag |-> "DX10", mips |-> mips]
\* Faulty variant: #[default] put on the DX10 variant.
ExtraDefault_dx10 == ExtraDX10(<<0, 0>>)

ExtraDefault == ExtraGNRL

\* CompressableBytes: the bytes and the recorded decompressed length,
\* {} for None and {n} for Some(n).
CompressableBytesDefault == [bytes |-> <<>>, decompressed_len |-> {}]

from_bytes(bytes) ==
    [bytes |-> bytes.bytes, decompressed_len |-> bytes.decompressed_len,
     extra |-> ExtraDefault]

ChunkDefault ==
    [bytes |-> CompressableBytesDefault.bytes,
     decompressed_len |-> CompressableBytesDefault.decompressed_len,
     extra |-> ExtraDefault]

\* derive::compressable_bytes!(Chunk)
as_bytes(self) == self.bytes
decompressed_len(self) == self.decompressed_len
is_compressed(self) == self.decompressed_len # {}
is_decompressed(self) == ~is_compressed(self)
is_empty(self) == self.bytes = <<>>
len(self) == Len(self.bytes)

----------------------------------------------------------------------------
(* Result<()> *)

Ok == [tag |-> "Ok", expected |-> 0, actual |-> 0]
AlreadyCompressed == [tag |-> "AlreadyCompressed", expected |-> 0, actual |-> 0]
AlreadyDecompressed == [tag |-> "AlreadyDecompressed", expected |-> 0, actual |-> 0]
DecompressionSizeMismatch(expected, actual) ==
    [tag |-> "DecompressionSizeMismatch", expected |-> expected, actual |-> actual]
\* From<std::io::Error> and From<lzzzz::Error>
ErrIo == [tag |-> "Io", expected |-> 0, actual |-> 0]
ErrLZ4 == [tag |-> "LZ4", expected |-> 0, actual |-> 0]
NoResult == [tag |-> "None", expected |-> 0, actual |-> 0]

\* What a call gives back: its result, the output buffer and the chunk
\* after it, the codec it ran ("none" when it ran none) and the size of
\* the destination the decoder was given.
Outcome(res, out, self, codec, dst_len) ==
    [res |-> res, out |-> out, self |-> self, codec |-> codec,
     dst_len |-> dst_len]

----------------------------------------------------------------------------
(* Chunk's codec methods *)

\* flate2::Compression::default() and ::best()
CompressionDefault == 6
CompressionBest == 9

\* Faulty variant: the block is written from the start of out, over what it held.
compress_into_lz4_overwrite(self, out) ==
    Outcome(Ok, [data |-> Lz4Encode(self.bytes),
                 cap |-> Max(out.cap, Len(self.bytes) + 16)],
            self, "lz4_hc", 0)

\* lz4_hc::compress_to_vec: reserve LZ4_compressBound(len) and append.
compress_into_lz4(self, out) ==
    LET n == Len(as_bytes(self))
        grown == Reserve(out, n + (n \div 255) + 16)
    IN Outcome(Ok,
               [data |-> out.data \o Lz4Encode(as_bytes(self)), cap |-> grown.cap],
               self, "lz4_hc", 0)

\* Faulty variant: the chunk compresses in place as well, taking the stream as its
\* bytes and recording the length it had.
compress_into_zlib_inplace(self, out, level, window_bits) ==
    LET stream == ZlibEncode(self.bytes, level, window_bits)
    IN Outcome(Ok, [data |-> out.data \o stream,
                    cap |-> Max(out.cap, Len(out.data) + Len(stream))],
               [self EXCEPT !.bytes = stream,
                            !.decompressed_len = {Len(self.bytes)}],
               "zlib", 0)

\* ZlibEncoder over out: write_all hands the header to out when there is
\* input to write, finish hands over the rest.
compress_into_zlib(self, out, level, window_bits) ==
    LET stream == ZlibEncode(as_bytes(self), level, window_bits)
        out1 == IF as_bytes(self) = <<>> THEN out
                ELSE Extend(out, SubSeq(stream, 1, 2))
        rest == IF as_bytes(self) = <<>> THEN stream
                ELSE SubSeq(stream, 3, Len(stream))
    IN Outcome(Ok, Extend(out1, rest), self, "zlib", 0)

\* lz4::decompress into the slice out derefs to: its len() bytes.
decompress_into_lz4(self, out) ==
    LET r == Lz4Decode(as_bytes(self), out.data)
    IN [ok |-> r.ok, len |-> r.len, err |-> ErrLZ4,
        out |-> [out EXCEPT !.data = r.dst],
        codec |-> "lz4", dst_len |-> Len(out.data)]

\* ZlibDecoder over out: write_all fails on corrupt data and on input
\* left after the end of the stream; what was inflated reaches out when
\* the decoder is dropped; total_out counts it.
decompress_into_zlib(self, out) ==
    LET r == IF as_bytes(self) = <<>> THEN InflateResult("NeedMore", <<>>, 0)
             ELSE Inflate(as_bytes(self))
        written == IF r.produced = <<>> THEN out ELSE Extend(out, r.produced)
    IN [ok |-> \/ r.status = "NeedMore"
               \/ r.status = "StreamEnd" /\ r.rest = 0,
        len |-> Len(r.produced), err |-> ErrIo, out |-> written,
        codec |-> "zlib", dst_len |-> 0]

\* Faulty variant: the state check is made on the Zip path only.
compress_into_unchecked_lz4(self, out, options) ==
    IF options.compression_format = "LZ4" THEN compress_into_lz4(self, out)
    ELSE IF is_compressed(self)
    THEN Outcome(AlreadyCompressed, out, self, "none", 0)
    ELSE IF options.compression_level = "FO4"
    THEN compress_into_zlib(self, out, CompressionDefault, 15)
    ELSE IF options.compression_level = "FO4Xbox"
    THEN compress_into_zlib(self, out, CompressionBest, 12)
    ELSE compress_into_zlib(self, out, CompressionBest, 15)

\* Faulty variant: the level is matched first and the format only under SF.
compress_into_level_first(self, out, options) ==
    IF is_compressed(self) THEN Outcome(AlreadyCompressed, out, self, "none", 0)
    ELSE IF options.compression_level = "FO4"
    THEN compress_into_zlib(self, out, CompressionDefault, 15)
    ELSE IF options.compression_level = "FO4Xbox"
    THEN compress_into_zlib(self, out, CompressionBest, 12)
    ELSE IF options.compression_format = "Zip"
    THEN compress_into_zlib(self, out, CompressionBest, 15)
    ELSE compress_into_lz4(self, out)

\* Faulty variant: out is cleared before the state check.
compress_into_clears(self, out, options) ==
    LET cleared == [out EXCEPT !.data = <<>>]
    IN IF is_compressed(self)
       THEN Outcome(AlreadyCompressed, cleared, self, "none", 0)
       ELSE IF options.compression_format = "Zip"
       THEN IF options.compression_level = "FO4"
            THEN compress_into_zlib(self, cleared, CompressionDefault, 15)
            ELSE IF options.compression_level = "FO4Xbox"
            THEN compress_into_zlib(self, cleared, CompressionBest, 12)
            ELSE compress_into_zlib(self, cleared, CompressionBest, 15)
       ELSE compress_into_lz4(self, cleared)

compress_into(self, out, options) ==
    IF is_compressed(self) THEN Outcome(AlreadyCompressed, out, self, "none", 0)
    ELSE IF options.compression_format = "Zip"
    THEN IF options.compression_level = "FO4"
         THEN compress_into_zlib(self, out, CompressionDefault, 15)
         ELSE IF options.compression_level = "FO4Xbox"
         THEN compress_into_zlib(self, out, CompressionBest, 12)
         ELSE compress_into_zlib(self, out, CompressionBest, 15)
    ELSE compress_into_lz4(self, out)

\* Faulty variant: the produced byte count is not compared with the recorded one.
decompress_into_ungated(self, out, options) ==
    IF decompressed_len(self) = {}
    THEN Outcome(AlreadyDecompressed, out, self, "none", 0)
    ELSE LET n == CHOOSE x \in decompressed_len(self) : TRUE
             reserved == ReserveExact(out, n)
             r == IF options.compression_format = "Zip"
                  THEN decompress_into_zlib(self, reserved)
                  ELSE decompress_into_lz4(self, reserved)
         IN IF ~r.ok THEN Outcome(r.err, r.out, self, r.codec, r.dst_len)
            ELSE Outcome(Ok, r.out, self, r.codec, r.dst_len)

\* Faulty variant: a missing recorded length is taken to be 0.
decompress_into_unwrap_or_0(self, out, options) ==
    LET n == IF decompressed_len(self) = {} THEN 0
             ELSE CHOOSE x \in decompressed_len(self) : TRUE
        reserved == ReserveExact(out, n)
        r == IF options.compression_format = "Zip"
             THEN decompress_into_zlib(self, reserved)
             ELSE decompress_into_lz4(self, reserved)
    IN IF ~r.ok THEN Outcome(r.err, r.out, self, r.codec, r.dst_len)
       ELSE IF r.len = n THEN Outcome(Ok, r.out, self, r.codec, r.dst_len)
       ELSE Outcome(DecompressionSizeMismatch(n, r.len), r.out, self,
                    r.codec, r.dst_len)

decompress_into(self, out, options) ==
    IF decompressed_len(self) = {}
    THEN Outcome(AlreadyDecompressed, out, self, "none", 0)
    ELSE LET n == CHOOSE x \in decompressed_len(self) : TRUE
             reserved == ReserveExact(out, n)
             r == IF options.compression_format = "Zip"
                  THEN decompress_into_zlib(self, reserved)
                  ELSE decompress_into_lz4(self, reserved)
         IN IF ~r.ok THEN Outcome(r.err, r.out, self, r.codec, r.dst_len)
            ELSE IF r.len = n THEN Outcome(Ok, r.out, self, r.codec, r.dst_len)
            ELSE Outcome(DecompressionSizeMismatch(n, r.len), r.out, self,
                         r.codec, r.dst_len)

----------------------------------------------------------------------------
(* The inputs: payloads, and the byte strings chunks are built from *)

Payloads == UNION {[1..n -> PayloadBytes] : n \in 0..MaxLen}

OptionsDefault == [compression_format |-> "Zip", compression_level |-> "FO4"]

Decompressed(P) == [bytes |-> P, decompressed_len |-> {}]

\* What compress_into gives for each payload and each Options value.
Streams ==
    {compress_into(from_bytes(Decompressed(P)), VecNew, o).out.data :
        P \in Payloads, o \in Options}

\* Streams of the shortest payloads cut short, with a byte after their
\* end, and with their first byte changed.
Damaged ==
    LET short == {compress_into(from_bytes(Decompressed(P)), VecNew, o).out.data :
                     P \in {Q \in Payloads : Len(Q) <= 1}, o \in Options}
    IN {SubSeq(s, 1, Len(s) - 1) : s \in short}
       \cup {Append(s, 0) : s \in short}
       \cup {[s EXCEPT ![1] = 255 - s[1]] : s \in short}

ChunkBytes == Payloads \cup Streams \cup Damaged

\* The chunks an owner builds with from_bytes; on those of the shortest
\* byte strings it may also set extra to a DX10 mip range.
BuiltChunks ==
    LET lens == {{}} \cup {{n} : n \in 0..MaxLen}
    IN {from_bytes([bytes |-> b, decompressed_len |-> d]) :
           b \in ChunkBytes, d \in lens}
       \cup {[from_bytes([bytes |-> b, decompressed_len |-> d])
                 EXCEPT !.extra = ExtraDX10(<<0, 1>>)] :
                 b \in {c \in ChunkBytes : Len(c) <= 1}, d \in lens}

----------------------------------------------------------------------------
(* The state machine: one chunk, one output buffer, the calls on them *)

VARIABLES
    chunk,    \* the Chunk
    out,      \* the caller's Vec<u8>
    result,   \* what the last call returned
    last,     \* the last call: its arguments and what it ran
    built,    \* the chunk as it was constructed
    origin,   \* how the chunk was constructed: "default" or "from_bytes"
    ncalls,   \* compress_into calls on the chunk that returned Ok
    rt        \* progress of a compress / wrap / decompress round trip

vars == <<chunk, out, result, last, built, origin, ncalls, rt>>

NoCall == [op |-> "none", options |-> OptionsDefault, self0 |-> ChunkDefault,
           out0 |-> VecNew, codec |-> "none", dst_len |-> 0]

NoRoundTrip == [stage |-> "none", P |-> <<>>, O |-> OptionsDefault]

Init ==
    /\ \/ chunk = ChunkDefault /\ origin = "default"
       \/ chunk \in BuiltChunks /\ origin = "from_bytes"
    /\ built = chunk
    /\ out = VecNew
    /\ result = NoResult
    /\ last = NoCall
    /\ ncalls = 0
    /\ rt = NoRoundTrip

\* The buffer a caller brings for a call: n bytes of earlier contents
\* and room for spare more.
OutBuffer(n, spare) == [data |-> Filled(n), cap |-> n + spare]

\* The caller drops the buffer (and the result) of the last call and
\* brings another one.
NewOut(n, spare) ==
    /\ out' = OutBuffer(n, spare)
    /\ result' = NoResult
    /\ last' = NoCall
    /\ rt' = IF rt.stage = "wrapped" /\ n = 0 THEN rt ELSE NoRoundTrip
    /\ UNCHANGED <<chunk, built, origin, ncalls>>

Called(op, options, r) ==
    /\ chunk' = r.self
    /\ out' = r.out
    /\ result' = r.res
    /\ last' = [op |-> op, options |-> options, self0 |-> chunk, out0 |-> out,
                codec |-> r.codec, dst_len |-> r.dst_len]
    /\ ncalls' = IF op = "compress_into" /\ r.res = Ok /\ ncalls < MaxCalls
                 THEN ncalls + 1 ELSE ncalls
    /\ UNCHANGED <<built, origin>>

\* chunk.compress_into(&mut out, &options), on a buffer just brought.
CompressInto(options) ==
    /\ last.op = "none"
    /\ LET r == compress_into(chunk, out, options)
       IN /\ Called("compress_into", options, r)
          /\ rt' = IF is_decompressed(chunk) /\ out.data = <<>> /\ r.res = Ok
                   THEN [stage |-> "compressed", P |-> as_bytes(chunk),
                         O |-> options]
                   ELSE NoRoundTrip

\* chunk.decompress_into(&mut out, &options), on a buffer just brought.
DecompressInto(options) ==
    /\ last.op = "none"
    /\ LET r == decompress_into(chunk, out, options)
       IN /\ Called("decompress_into", options, r)
          /\ rt' = IF rt.stage = "wrapped" /\ rt.O = options /\ out.data = <<>>
                   THEN [rt EXCEPT !.stage = "done"]
                   ELSE NoRoundTrip

\* The owner wraps the bytes a compress_into produced in a compressed
\* chunk that records the length of the payload they came from.
Wrap ==
    /\ rt.stage = "compressed"
    /\ chunk' = from_bytes([bytes |-> out.data, decompressed_len |-> {Len(rt.P)}])
    /\ built' = chunk'
    /\ origin' = "from_bytes"
    /\ out' = VecNew
    /\ result' = NoResult
    /\ last' = NoCall
    /\ ncalls' = 0
    /\ rt' = [rt EXCEPT !.stage = "wrapped"]

Next ==
    \/ \E n \in 0..MaxPre, spare \in 0..MaxSpare : NewOut(n, spare)
    \/ \E options \in Options : CompressInto(options)
    \/ \E options \in Options : DecompressInto(options)
    \/ Wrap

Spec == Init /\ [][Next]_vars

----------------------------------------------------------------------------
(* Properties *)

\* The recorded decompressed length of a compressed chunk.
RecordedLen(self) == CHOOSE x \in decompressed_len(self) : TRUE

\* What the decoder of the last decompress_into did on its arguments.
LastDecode ==
    IF last.options.compression_format = "Zip"
    THEN decompress_into_zlib(last.self0,
                              ReserveExact(last.out0, RecordedLen(last.self0)))
    ELSE decompress_into_lz4(last.self0,
                             ReserveExact(last.out0, RecordedLen(last.self0)))

\* C1: a round trip (compress_into on a decompressed chunk holding P with
\* an empty buffer, the bytes wrapped in a compressed chunk recording
\* len(P), decompress_into with the same Options and a fresh empty buffer)
\* returns Ok and leaves the buffer equal to P, for every P and Options.
C1_RoundTrip ==
    rt.stage = "done" => result = Ok /\ out.data = rt.P

\* The round trip of C1 does hold on the Zip path.
RoundTripZip ==
    rt.stage = "done" /\ rt.O.compression_format = "Zip"
        => result = Ok /\ out.data = rt.P

\* C2: when the decode of a compressed chunk succeeds, decompress_into
\* returns Ok exactly when the decode produced the recorded number of
\* bytes, and DecompressionSizeMismatch{expected: recorded, actual:
\* produced} when it did not.
C2_LengthGate ==
    last.op = "decompress_into" /\ is_compressed(last.self0) /\ LastDecode.ok
        => /\ (result = Ok) <=> (LastDecode.len = RecordedLen(last.self0))
           /\ LastDecode.len # RecordedLen(last.self0)
                => result = DecompressionSizeMismatch(RecordedLen(last.self0),
                                                      LastDecode.len)

C2_Witness ==
    /\ last.op = "decompress_into"
    /\ last.options.compression_format = "Zip"
    /\ is_compressed(last.self0)
    /\ LastDecode.ok
    /\ LastDecode.len = 1
    /\ result = DecompressionSizeMismatch(2, 1)

\* C3: compress_into on a compressed chunk returns AlreadyCompressed for
\* every Options value and whatever the bytes are, and runs no codec.
C3_AlreadyCompressed ==
    last.op = "compress_into" /\ is_compressed(last.self0)
        => result = AlreadyCompressed /\ last.codec = "none"

C3_Witness ==
    /\ last.op = "compress_into"
    /\ is_compressed(last.self0)
    /\ last.options = [compression_format |-> "LZ4", compression_level |-> "SF"]
    /\ result = AlreadyCompressed

\* C4: decompress_into on a chunk with no recorded decompressed length
\* returns AlreadyDecompressed for every Options value and whatever the
\* bytes are, also when the bytes are no valid stream.
C4_AlreadyDecompressed ==
    last.op = "decompress_into" /\ decompressed_len(last.self0) = {}
        => result = AlreadyDecompressed /\ last.codec = "none"

C4_Witness ==
    /\ last.op = "decompress_into"
    /\ decompressed_len(last.self0) = {}
    /\ ~decompress_into_zlib(last.self0, last.out0).ok
    /\ result = AlreadyDecompressed

\* C5: no sequence of compress_into / decompress_into calls changes the
\* chunk (bytes, recorded length, extra), whatever they return; after a
\* successful compress_into another one is not rejected as
\* AlreadyCompressed.
C5_ChunkNotMutated ==
    /\ chunk = built
    /\ last.op = "compress_into" /\ ncalls >= 1
         => result # AlreadyCompressed

C5_Witness ==
    /\ ncalls >= 2
    /\ last.op = "compress_into"
    /\ result = Ok
    /\ chunk.extra.tag = "DX10"
    /\ chunk = built

\* C6: a compress_into that returns Ok leaves the buffer holding what it
\* held before followed by the compressed bytes and nothing else.
C6_CompressAppends ==
    last.op = "compress_into" /\ result = Ok
        => LET fresh == compress_into(last.self0, VecNew, last.options).out.data
           IN /\ out.data = last.out0.data \o fresh
              /\ Len(out.data) = Len(last.out0.data) + Len(fresh)

C6_Witness ==
    /\ last.op = "compress_into"
    /\ result = Ok
    /\ last.options.compression_format = "LZ4"
    /\ Len(last.out0.data) = 2
    /\ Len(out.data) > 2

\* C7: a default-constructed chunk is empty, of length 0, decompressed,
\* not compressed, with extra GNRL; compress_into on it is not rejected
\* as AlreadyCompressed and decompress_into on it is rejected as
\* AlreadyDecompressed.
C7_DefaultState ==
    origin = "default"
        => /\ is_empty(chunk)
           /\ len(chunk) = 0
           /\ is_decompressed(chunk)
           /\ ~is_compressed(chunk)
           /\ chunk.extra = ExtraGNRL
           /\ last.op = "compress_into" => result # AlreadyCompressed
           /\ last.op = "decompress_into" => result = AlreadyDecompressed

C7_Witness ==
    /\ origin = "default"
    /\ last.op = "decompress_into"
    /\ result = AlreadyDecompressed

\* C8: the level does not matter to compress_into with the LZ4 format nor
\* to decompress_into with either format: the call gives the same result
\* and the same buffer under every other level.
C8_LevelOnlyDeflate ==
    \A l \in CompressionLevels :
        LET o == [last.options EXCEPT !.compression_level = l]
        IN /\ last.op = "compress_into" /\ last.options.compression_format = "LZ4"
                => LET r == compress_into(last.self0, last.out0, o)
                   IN r.res = result /\ r.out = out
           /\ last.op = "decompress_into"
                => LET r == decompress_into(last.self0, last.out0, o)
                   IN r.res = result /\ r.out = out

C8_Witness ==
    /\ last.op = "compress_into"
    /\ last.options = [compression_format |-> "LZ4", compression_level |-> "FO4"]
    /\ result = Ok
    /\ Len(as_bytes(last.self0)) > 0

\* C9: decompress_into with the LZ4 format, on a compressed chunk holding
\* a valid block with recorded length n and a buffer of length 0, gives
\* the decoder n bytes of destination, returns Ok and leaves the n decoded
\* bytes in the buffer.
C9_Lz4DecodesIntoCapacity ==
    \A P \in Payloads :
        /\ last.op = "decompress_into"
        /\ last.options.compression_format = "LZ4"
        /\ as_bytes(last.self0) = Lz4Encode(P)
        /\ decompressed_len(last.self0) = {Len(P)}
        /\ last.out0.data = <<>>
        => /\ last.dst_len = Len(P)
           /\ result = Ok
           /\ out.data = P

\* C10: a call rejected as AlreadyCompressed or AlreadyDecompressed leaves
\* the buffer as it was: same contents, same length, same capacity.
C10_RejectedLeavesOut ==
    result \in {AlreadyCompressed, AlreadyDecompressed} => out = last.out0

C10_Witness ==
    /\ result = AlreadyCompressed
    /\ last.out0.data # <<>>
    /\ out = last.out0

\* The codec models are never asked about a stream outside what they model.
InFragment ==
    \A b \in ChunkBytes : Inflate(b).status # "Unmodelled"

====
